---- MODULE Spec2Model ----
(***************************************************************************)
(* Expense / balance bot: the callback-driven bot of bot_Version2.py (the  *)
(* record store holds users, balances, transactions and expenses; the      *)
(* dialog state lives in the dispatcher's MemoryStorage) and the           *)
(* reply-keyboard bot of bot.py (users with an inline balance, expenses,   *)
(* one coroutine per update).                                              *)
(*                                                                         *)
(* Representation.  A Telegram account is one of Identities; its username  *)
(* and its tg_id never change, so a users row is identified by the         *)
(* username and user["id"], user["tg_id"] and user["username"] name the    *)
(* same account.  A message text is a sequence of one-character strings.   *)
(* Amounts are Decimal values held as integers in hundredths (every input  *)
(* text has at most two fractional digits, so str()/Decimal() round trips  *)
(* are exact).  Cyrillic literals of the source are transliterated.        *)
(* The record store is configured (supabase is not None) and its calls     *)
(* succeed, except in SpecErr, where the insert of an expense may fail.    *)
(* SpecAmounts feeds the amount steps the texts at the boundary.           *)
(* SpecSettle runs handle_admin_paid as two steps, one up to the status    *)
(* test and one from the transfer on, as two bot processes on one record   *)
(* store (or an asynchronous record-store client) interleave them.         *)
(***************************************************************************)
EXTENDS Integers, Sequences, FiniteSets, TLC

None == "None"

\* Python's None where a Decimal is expected (no Decimal here is negative)
NoAmount == 0 - 1

\* ------------------------------------------------------------ bounds
MaxExpenses == 2
MaxTx == 4
MaxUpdates == 4
MaxUpdatesV1 == 6
MaxTasks == 2
MaxHandlers == 2
MaxPaidTasks == 2
MaxUpdatesSettle == 5

\* ------------------------------------------------------------ configuration
Identities == {"admin", "hr", "it", "out"}

ADMIN_USERNAME == "admin"

\* ALLOWED_USERS = "@hr:hr,@it:it"; the admin is always added with role admin.
allowed_map(username) ==
    CASE username = ADMIN_USERNAME -> "admin"
      [] username = "hr" -> "hr"
      [] username = "it" -> "it"
      [] OTHER -> None

\* The characters of a username, as typed after "@".
Handle(u) ==
    CASE u = "admin" -> <<"a", "d", "m">>
      [] u = "hr" -> <<"h", "r">>
      [] u = "it" -> <<"i", "t">>
      [] OTHER -> <<"o", "u", "t">>

\* ------------------------------------------------------------ inbound texts
T_1500 == <<"1", "5", "0", "0">>
T_250_50 == <<"2", "5", "0", ",", "5", "0">>
T_no == <<"N", "o">>
T_at_hr == <<"@", "h", "r">>
T_help == <<"/", "h", "e", "l", "p">>

Texts == {T_1500, T_250_50, T_no, T_at_hr, T_help}

\* A message carries a text, or a photo (then message.text is None, read as "").
Messages == {[text |-> t, photo |-> FALSE] : t \in Texts}
            \cup {[text |-> <<>>, photo |-> TRUE]}

\* callback data "res:<token>"
Resources == {"Drugoe"}

VARIABLES
    users,          \* usernames that have a row in table users
    balances,       \* table balances: user_id -> balance
    transactions,   \* table transactions, in insertion order
    expenses,       \* table expenses, in insertion order (id = index)
    fsm_state,      \* MemoryStorage: state per identity
    fsm_data,       \* MemoryStorage: data per identity
    out,            \* what the last handler answered and sent
    update_id,      \* the number of updates the dispatcher has handled
    user_inserts,   \* history: per username, the INSERTs into table users
    deferred,       \* history: the expense ids the admin has deferred
    paid_tasks,     \* SpecSettle: the handle_admin_paid runs past the status test
    \* bot.py
    v1_users,       \* table users: username -> balance
    v1_expenses,    \* table expenses, in insertion order
    v1_fsm_state,   \* MemoryStorage: state per identity
    v1_fsm_data,    \* MemoryStorage: data per identity
    v1_tasks,       \* the finalization coroutines that are suspended at an await
    v1_applied,     \* history: per username, the sum of the balance changes written
    v1_handlers     \* the add_sum handlers registered at run time: their usernames

v2vars == <<users, balances, transactions, expenses, fsm_state, fsm_data, user_inserts, deferred,
           paid_tasks>>
v1vars == <<v1_users, v1_expenses, v1_fsm_state, v1_fsm_data, v1_tasks, v1_applied,
           v1_handlers>>
vars == <<v2vars, v1vars, out, update_id>>

\* ------------------------------------------------------------ FSM storage
HR_waiting_amount == "HRStates:waiting_amount"
HR_waiting_photo == "HRStates:waiting_photo"
IT_waiting_amount == "ITStates:waiting_amount"
IT_waiting_resource == "ITStates:waiting_resource"
Admin_waiting_give_to == "AdminStates:waiting_give_to"
Admin_waiting_give_amount == "AdminStates:waiting_give_amount"

\* a key that is absent reads as None: NoAmount for "amount", <<>> for "give_to"
EmptyData == [amount |-> NoAmount, it_action |-> None, resource |-> None, give_to |-> <<>>]

\* state.clear(): the state and the data of this identity are dropped
state_clear(u) ==
    /\ fsm_state' = [fsm_state EXCEPT ![u] = None]
    /\ fsm_data' = [fsm_data EXCEPT ![u] = EmptyData]

\* ------------------------------------------------------------ utilities
Digits == {"0", "1", "2", "3", "4", "5", "6", "7", "8", "9"}

DigitVal(c) ==
    CASE c = "0" -> 0 [] c = "1" -> 1 [] c = "2" -> 2 [] c = "3" -> 3 [] c = "4" -> 4
      [] c = "5" -> 5 [] c = "6" -> 6 [] c = "7" -> 7 [] c = "8" -> 8 [] c = "9" -> 9

\* the loop of parse_amount: the first run of digits, "." and "," (as ".")
RECURSIVE first_number_token(_, _, _)
first_number_token(text, i, s) ==
    IF i > Len(text) THEN s
    ELSE LET ch == text[i] IN
         IF ch \in Digits \/ ch = "." \/ ch = ","
         THEN first_number_token(text, i + 1, Append(s, IF ch = "," THEN "." ELSE ch))
         ELSE IF s # <<>> THEN s
         ELSE first_number_token(text, i + 1, s)

RECURSIVE DigitsValue(_)
DigitsValue(ds) ==
    IF ds = <<>> THEN 0
    ELSE 10 * DigitsValue(SubSeq(ds, 1, Len(ds) - 1)) + DigitVal(ds[Len(ds)])

\* Decimal(s) for s over digits and ".": InvalidOperation (None) unless s has
\* at most one "." and at least one digit; the value is in hundredths.
Decimal(s) ==
    LET dots == {i \in 1..Len(s) : s[i] = "."}
    IN IF Cardinality(dots) > 1 \/ Len(s) = Cardinality(dots) THEN NoAmount
       ELSE IF dots = {} THEN 100 * DigitsValue(s)
       ELSE LET d == CHOOSE i \in dots : TRUE
                int == SubSeq(s, 1, d - 1)
                frac == SubSeq(s, d + 1, Len(s))
                frac2 == IF Len(frac) = 0 THEN <<"0", "0">>
                         ELSE IF Len(frac) = 1 THEN frac \o <<"0">>
                         ELSE SubSeq(frac, 1, 2)
            IN 100 * DigitsValue(int) + DigitsValue(frac2)

parse_amount(text) ==
    IF text = <<>> THEN NoAmount
    ELSE LET s == first_number_token(text, 1, <<>>)
         IN IF s = <<>> THEN NoAmount ELSE Decimal(s)

\* "if not amount": None or Decimal zero
not_amount(amount) == amount = NoAmount \/ amount = 0

\* text.startswith(prefix)
startswith(text, prefix) ==
    Len(text) >= Len(prefix) /\ SubSeq(text, 1, Len(prefix)) = prefix

\* str.lower() on the letters the texts use
lower(text) ==
    [i \in 1..Len(text) |->
        CASE text[i] = "N" -> "n" [] text[i] = "O" -> "o" [] OTHER -> text[i]]

\* text.strip().split()[0] for a text without blanks
first_word(text) == text

\* str.lstrip("@")
RECURSIVE lstrip_at(_)
lstrip_at(text) ==
    IF text # <<>> /\ text[1] = "@" THEN lstrip_at(SubSeq(text, 2, Len(text))) ELSE text

\* ------------------------------------------------------------ DB wrappers
\* a role column that reads "hr" for every row
role_of_hr(user) == "hr"

\* users rows are created from allowed_map, so user["role"] is allowed_map's role
role_of(user) == allowed_map(user)

\* ensure_user_db that skips both lookups and always takes the create branch
ensure_user_db_no_lookup(U, B, username) ==
    IF allowed_map(username) \notin {"hr", "it", "admin"}
    THEN [user |-> None, users |-> U, balances |-> B, inserted |-> FALSE]
    ELSE [user |-> username, users |-> U \cup {username},
          balances |-> [x \in DOMAIN B \cup {username} |->
                           IF x = username THEN 0 ELSE B[x]],
          inserted |-> TRUE]

\* Returns the user (or None), the tables after the call, and whether the call
\* took the create branch (INSERT into users, upsert of a 0 balance).
ensure_user_db(U, B, username) ==
    LET role == allowed_map(username) IN
    IF role \notin {"hr", "it", "admin"}
    THEN [user |-> None, users |-> U, balances |-> B, inserted |-> FALSE]
    ELSE IF username \in U
    THEN [user |-> username, users |-> U, balances |-> B, inserted |-> FALSE]
    ELSE [user |-> username, users |-> U \cup {username},
          balances |-> [x \in DOMAIN B \cup {username} |->
                           IF x = username THEN 0 ELSE B[x]],
          inserted |-> TRUE]

\* the row whose username has these characters, or None
get_user_by_username(U, chars) ==
    IF \E x \in U : Handle(x) = lstrip_at(chars)
    THEN CHOOSE x \in U : Handle(x) = lstrip_at(chars)
    ELSE None

get_user_by_tg_id(U, tg) == IF tg \in U THEN tg ELSE None

\* get_balance that never finds the row
get_balance_no_row(B, user_id) == 0

get_balance(B, user_id) ==
    IF user_id = None THEN 0
    ELSE IF user_id \in DOMAIN B THEN B[user_id] ELSE 0

\* set_balance without the .eq("user_id", ...) filter: every row is updated
set_balance_all_rows(B, user_id, new_balance) ==
    IF user_id = None THEN B ELSE [x \in DOMAIN B |-> new_balance]

\* an UPDATE ... WHERE user_id = ...: no row, no effect
set_balance(B, user_id, new_balance) ==
    IF user_id = None \/ user_id \notin DOMAIN B THEN B
    ELSE [B EXCEPT ![user_id] = new_balance]

Abs(x) == IF x < 0 THEN -x ELSE x

\* the row change_balance inserts: both user columns are None on either sign
transaction_row(user_id, delta) ==
    [from_user |-> IF delta > 0 THEN None ELSE None,
     to_user |-> IF delta < 0 THEN None ELSE None,
     amount |-> Abs(delta),
     type |-> IF delta > 0 THEN "credit" ELSE "debit"]

\* change_balance that adds abs(delta), the amount it logs, to the balance
change_balance_abs(L, user_id, delta) ==
    IF user_id = None THEN L
    ELSE [balances |-> set_balance(L.balances, user_id,
                                   get_balance(L.balances, user_id) + Abs(delta)),
          transactions |-> Append(L.transactions, transaction_row(user_id, delta))]

\* L = [balances, transactions]; the ledger after change_balance(user_id, delta)
change_balance(L, user_id, delta) ==
    IF user_id = None THEN L
    ELSE LET cur == get_balance(L.balances, user_id)
             new == cur + delta
         IN [balances |-> set_balance(L.balances, user_id, new),
             transactions |-> Append(L.transactions, transaction_row(user_id, delta))]

expense_row(user_id, username, role, amount, resource, image_url, note) ==
    [user_id |-> user_id, username |-> username, role |-> role, amount |-> amount,
     resource |-> resource, image_url |-> image_url, note |-> note,
     status |-> "pending", paid_by |-> None]

insert_expense(E, user_id, username, role, amount, resource, image_url, note) ==
    Append(E, expense_row(user_id, username, role, amount, resource, image_url, note))

\* mark_expense_paid that records paid_by and leaves the status
mark_expense_paid_no_status(E, expense_id, paid_by_user_id) ==
    [E EXCEPT ![expense_id] = [@ EXCEPT !.paid_by = paid_by_user_id]]

mark_expense_paid(E, expense_id, paid_by_user_id) ==
    [E EXCEPT ![expense_id] = [@ EXCEPT !.status = "paid", !.paid_by = paid_by_user_id]]

\* upload_receipt_to_supabase: a public URL, or None when the upload fails
UploadResults == {"url", None}

\* ------------------------------------------------------------ outputs
\* out: the handler that ran last, for whom, its answer and the messages it sent
Reply(handler, from_user, text, sent) ==
    out' = [handler |-> handler, from_user |-> from_user, reply |-> text, sent |-> sent]

\* bot.send_message(chat_id=row["tg_id"], ...) when the row exists
Notify(row, what) == IF row = None THEN {} ELSE {<<row, what>>}

\* ------------------------------------------------------------ bot.py: storage
SpendForm_waiting_for_category == "SpendForm:waiting_for_category"
SpendForm_waiting_for_amount == "SpendForm:waiting_for_amount"
SpendForm_waiting_for_comment == "SpendForm:waiting_for_comment"
SpendForm_waiting_for_photo == "SpendForm:waiting_for_photo"

V1EmptyData == [category |-> None, amount |-> NoAmount, comment |-> <<>>]

IdleTask == [pc |-> "idle", username |-> None, amount |-> 0, comment |-> <<>>,
             category |-> None, file_id |-> None, new_balance |-> 0]

\* no handle_admin_paid run is between its status test and its transfer
IdlePaid == [pc |-> "idle", tg_id |-> None, expense_id |-> 0, amount |-> 0, username |-> None]

\* ------------------------------------------------------------ handlers
Init ==
    /\ users = {}
    /\ balances = <<>>
    /\ transactions = <<>>
    /\ expenses = <<>>
    /\ fsm_state = [u \in Identities |-> None]
    /\ fsm_data = [u \in Identities |-> EmptyData]
    /\ out = [handler |-> None, from_user |-> None, reply |-> "", sent |-> {}]
    /\ update_id = 0
    /\ user_inserts = [u \in Identities |-> 0]
    /\ deferred = {}
    /\ paid_tasks = [i \in 1..MaxPaidTasks |-> IdlePaid]
    /\ v1_users = <<>>
    /\ v1_expenses = <<>>
    /\ v1_fsm_state = [u \in Identities |-> None]
    /\ v1_fsm_data = [u \in Identities |-> V1EmptyData]
    /\ v1_tasks = [i \in 1..MaxTasks |-> IdleTask]
    /\ v1_applied = [u \in Identities |-> 0]
    /\ v1_handlers = <<>>

\* the tables after the ensure_user_db call that opens a handler
Registered(en) ==
    /\ users' = en.users
    /\ user_inserts' = IF en.inserted THEN [user_inserts EXCEPT ![en.user] = @ + 1]
                       ELSE user_inserts

Ensured(en) == Registered(en) /\ balances' = en.balances

cmd_start(u) ==
    LET en == ensure_user_db(users, balances, u) IN
    /\ Ensured(en)
    /\ UNCHANGED <<transactions, expenses>>
    /\ IF en.user = None
       THEN /\ Reply("cmd_start", u, "Dostup zapreshchen. Svyazhites s administratorom.", {})
            /\ UNCHANGED <<fsm_state, fsm_data>>
       ELSE /\ Reply("cmd_start", u, "Dobro pozhalovat", {})
            /\ state_clear(u)

handle_hr_spent(u) ==
    LET en == ensure_user_db(users, balances, u) IN
    /\ Ensured(en)
    /\ UNCHANGED <<transactions, expenses>>
    /\ IF en.user = None \/ role_of(en.user) # "hr"
       THEN /\ Reply("handle_hr_spent", u, "Tolko HR.", {})
            /\ UNCHANGED <<fsm_state, fsm_data>>
       ELSE /\ fsm_state' = [fsm_state EXCEPT ![u] = HR_waiting_amount]
            /\ UNCHANGED fsm_data
            /\ Reply("handle_hr_spent", u, "Otprav summu", {})

handle_it_received(u) ==
    LET en == ensure_user_db(users, balances, u) IN
    /\ Ensured(en)
    /\ UNCHANGED <<transactions, expenses>>
    /\ IF en.user = None \/ role_of(en.user) # "it"
       THEN /\ Reply("handle_it_received", u, "Tolko IT.", {})
            /\ UNCHANGED <<fsm_state, fsm_data>>
       ELSE /\ fsm_state' = [fsm_state EXCEPT ![u] = IT_waiting_amount]
            /\ fsm_data' = [fsm_data EXCEPT ![u].it_action = "received"]
            /\ Reply("handle_it_received", u, "Otprav summu, kotoraya prishla", {})

handle_it_spent(u) ==
    LET en == ensure_user_db(users, balances, u) IN
    /\ Ensured(en)
    /\ UNCHANGED <<transactions, expenses>>
    /\ IF en.user = None \/ role_of(en.user) # "it"
       THEN /\ Reply("handle_it_spent", u, "Tolko IT.", {})
            /\ UNCHANGED <<fsm_state, fsm_data>>
       ELSE /\ fsm_state' = [fsm_state EXCEPT ![u] = IT_waiting_resource]
            /\ fsm_data' = [fsm_data EXCEPT ![u].it_action = "spent"]
            /\ Reply("handle_it_spent", u, "Vyberite resurs:", {})

\* no ensure_user_db call and no role test here
handle_it_resource_select(u, data) ==
    /\ fsm_data' = [fsm_data EXCEPT ![u].resource = data]
    /\ fsm_state' = [fsm_state EXCEPT ![u] = IT_waiting_amount]
    /\ Reply("handle_it_resource_select", u, "Resurs. Teper otprav summu", {})
    /\ UNCHANGED <<users, balances, transactions, expenses, user_inserts>>

handle_balance(u) ==
    LET en == ensure_user_db(users, balances, u) IN
    /\ Ensured(en)
    /\ UNCHANGED <<transactions, expenses, fsm_state, fsm_data>>
    /\ IF en.user = None
       THEN Reply("handle_balance", u, "Dostup zapreshchen.", {})
       ELSE Reply("handle_balance", u, "Tekushchii balans", {})

handle_admin_paid(u, expense_id) ==
    LET en == ensure_user_db(users, balances, u) IN
    /\ Registered(en)
    /\ UNCHANGED <<fsm_state, fsm_data>>
    /\ IF en.user = None \/ role_of(en.user) # "admin"
       THEN /\ Reply("handle_admin_paid", u, "Tolko admin.", {})
            /\ balances' = en.balances
            /\ UNCHANGED <<transactions, expenses>>
       ELSE IF expense_id \notin 1..Len(expenses)
       THEN /\ Reply("handle_admin_paid", u, "Zayavka ne naidena.", {})
            /\ balances' = en.balances
            /\ UNCHANGED <<transactions, expenses>>
       ELSE IF expenses[expense_id].status = "paid"
       THEN /\ Reply("handle_admin_paid", u, "Uzhe oplacheno.", {})
            /\ balances' = en.balances
            /\ UNCHANGED <<transactions, expenses>>
       ELSE LET exp == expenses[expense_id]
                amount == exp.amount
                admin_row == get_user_by_tg_id(en.users, u)
                target_row == get_user_by_username(en.users, Handle(exp.username))
                L0 == [balances |-> en.balances, transactions |-> transactions]
                L1 == IF admin_row # None THEN change_balance(L0, admin_row, -amount) ELSE L0
                L2 == IF target_row # None THEN change_balance(L1, target_row, amount) ELSE L1
            IN /\ Len(transactions) + 2 <= MaxTx
               /\ balances' = L2.balances
               /\ transactions' = L2.transactions
               /\ expenses' = mark_expense_paid(expenses, expense_id, admin_row)
               /\ Reply("handle_admin_paid", u, "Otmecheno kak oplacheno.", Notify(target_row, "Vam zachisleno po zayavke"))

\* handle_admin_due without the role test
handle_admin_due_unchecked(u, expense_id) ==
    LET en == ensure_user_db(users, balances, u) IN
    /\ Ensured(en)
    /\ UNCHANGED <<transactions, fsm_state, fsm_data>>
    /\ IF expense_id \notin 1..Len(expenses)
       THEN /\ Reply("handle_admin_due", u, "Otlozheno (Dolzhen).", {})
            /\ UNCHANGED <<expenses, deferred>>
       ELSE LET target == get_user_by_username(en.users, Handle(expenses[expense_id].username))
            IN /\ expenses' = [expenses EXCEPT ![expense_id].status = "pending"]
               /\ deferred' = deferred \cup {expense_id}
               /\ Reply("handle_admin_due", u, "Otlozheno (Dolzhen).",
                        Notify(target, "Vasha zayavka ozhidaet oplaty"))

\* handle_admin_due whose update writes the status of handle_admin_paid
handle_admin_due_marks_paid(u, expense_id) ==
    LET en == ensure_user_db(users, balances, u) IN
    /\ Ensured(en)
    /\ UNCHANGED <<transactions, fsm_state, fsm_data>>
    /\ IF en.user = None \/ role_of(en.user) # "admin"
       THEN /\ Reply("handle_admin_due", u, "Tolko admin.", {})
            /\ UNCHANGED <<expenses, deferred>>
       ELSE IF expense_id \notin 1..Len(expenses)
       THEN /\ Reply("handle_admin_due", u, "Otlozheno (Dolzhen).", {})
            /\ UNCHANGED <<expenses, deferred>>
       ELSE LET target == get_user_by_username(en.users, Handle(expenses[expense_id].username))
            IN /\ expenses' = [expenses EXCEPT ![expense_id].status = "paid"]
               /\ deferred' = deferred \cup {expense_id}
               /\ Reply("handle_admin_due", u, "Otlozheno (Dolzhen).",
                        Notify(target, "Vasha zayavka ozhidaet oplaty"))

handle_admin_due(u, expense_id) ==
    LET en == ensure_user_db(users, balances, u) IN
    /\ Ensured(en)
    /\ UNCHANGED <<transactions, fsm_state, fsm_data>>
    /\ IF en.user = None \/ role_of(en.user) # "admin"
       THEN /\ Reply("handle_admin_due", u, "Tolko admin.", {})
            /\ UNCHANGED <<expenses, deferred>>
       ELSE IF expense_id \notin 1..Len(expenses)
       THEN /\ Reply("handle_admin_due", u, "Otlozheno (Dolzhen).", {})
            /\ UNCHANGED <<expenses, deferred>>
       ELSE LET target == get_user_by_username(en.users, Handle(expenses[expense_id].username))
            IN /\ expenses' = [expenses EXCEPT ![expense_id].status = "pending"]
               /\ deferred' = deferred \cup {expense_id}
               /\ Reply("handle_admin_due", u, "Otlozheno (Dolzhen).", Notify(target, "Vasha zayavka ozhidaet oplaty"))

handle_admin_give(u) ==
    LET en == ensure_user_db(users, balances, u) IN
    /\ Ensured(en)
    /\ UNCHANGED <<transactions, expenses>>
    /\ IF en.user = None \/ role_of(en.user) # "admin"
       THEN /\ Reply("handle_admin_give", u, "Tolko admin.", {})
            /\ UNCHANGED <<fsm_state, fsm_data>>
       ELSE /\ fsm_state' = [fsm_state EXCEPT ![u] = Admin_waiting_give_to]
            /\ UNCHANGED fsm_data
            /\ Reply("handle_admin_give", u, "Komu vydali dengi?", {})

handle_admin_stats(u) ==
    LET en == ensure_user_db(users, balances, u) IN
    /\ Ensured(en)
    /\ UNCHANGED <<transactions, expenses, fsm_state, fsm_data>>
    /\ IF en.user = None \/ role_of(en.user) # "admin"
       THEN Reply("handle_admin_stats", u, "Tolko admin.", {})
       ELSE Reply("handle_admin_stats", u, "Statistika po balansam", {})

\* ------------------------------------------------------------ main_message_handler
\* the admin's action buttons under a new expense, and the receipt link
AdminCaption(admin, img_url) ==
    IF admin = None THEN {}
    ELSE IF img_url # None
    THEN {<<admin, "Novaya rashodka + Oplatil/Otlozhit">>, <<admin, "Chek">>}
    ELSE {<<admin, "Novaya rashodka + Oplatil/Otlozhit">>}

CashTokens == {<<"n", "a", "l", "i", "c", "h", "k", "a">>,
               <<"n", "a", "l", "i", "c", "h", "k", "a", ".">>, <<"n", "a", "l">>}
NoTokens == {<<"n", "e", "t">>, <<"n", "o">>}

\* note of the HR proof step; <<>> is None
hr_note(m) ==
    IF m.photo THEN <<>>
    ELSE IF lower(m.text) \in CashTokens THEN <<"n", "a", "l", "i", "c", "h", "k", "a">>
    ELSE IF lower(m.text) \in NoTokens THEN <<>>
    ELSE m.text

mmh_help(u, m) ==
    /\ startswith(m.text, T_help)
    /\ Reply("main_message_handler", u, "Ispolzuite /start dlya vhoda.", {})
    /\ UNCHANGED <<users, balances, transactions, expenses, fsm_state, fsm_data, user_inserts>>

mmh_denied(u, m) ==
    /\ ~startswith(m.text, T_help)
    /\ ensure_user_db(users, balances, u).user = None
    /\ Reply("main_message_handler", u, "Dostup zapreshchen.", {})
    /\ UNCHANGED <<users, balances, transactions, expenses, fsm_state, fsm_data, user_inserts>>

\* the handler got past /help and ensure_user_db, in FSM state st
mmh_in_state(u, m, st) ==
    /\ ~startswith(m.text, T_help)
    /\ ensure_user_db(users, balances, u).user # None
    /\ fsm_state[u] = st

mmh_hr_waiting_amount(u, m) ==
    LET en == ensure_user_db(users, balances, u)
        amount == parse_amount(m.text)
    IN /\ mmh_in_state(u, m, HR_waiting_amount)
       /\ Ensured(en)
       /\ UNCHANGED <<transactions, expenses>>
       /\ IF not_amount(amount)
          THEN /\ Reply("main_message_handler", u, "Ne udalos raspoznat summu.", {})
               /\ UNCHANGED <<fsm_state, fsm_data>>
          ELSE /\ fsm_data' = [fsm_data EXCEPT ![u].amount = amount]
               /\ fsm_state' = [fsm_state EXCEPT ![u] = HR_waiting_photo]
               /\ Reply("main_message_handler", u, "Prikrepi foto cheka ili napishi nalichka.", {})

mmh_hr_waiting_photo(u, m, uploaded) ==
    LET en == ensure_user_db(users, balances, u)
        user == en.user
        img_url == IF m.photo THEN uploaded ELSE None
        note == hr_note(m)
        stored == fsm_data[u].amount
        amount == IF stored = NoAmount THEN 0 ELSE stored
        admin == get_user_by_username(en.users, Handle(ADMIN_USERNAME))
    IN /\ mmh_in_state(u, m, HR_waiting_photo)
       /\ m.photo \/ uploaded = None
       /\ Len(expenses) < MaxExpenses
       /\ Ensured(en)
       /\ expenses' = insert_expense(expenses, user, user, role_of(user), amount,
                                     None, img_url, note)
       /\ UNCHANGED transactions
       /\ Reply("main_message_handler", u, "Zayavka otpravlena adminu.", AdminCaption(admin, img_url))
       /\ state_clear(u)

mmh_it_waiting_amount(u, m) ==
    LET en == ensure_user_db(users, balances, u)
        user == en.user
        action == fsm_data[u].it_action
        amount == parse_amount(m.text)
        L0 == [balances |-> en.balances, transactions |-> transactions]
    IN /\ mmh_in_state(u, m, IT_waiting_amount)
       /\ Registered(en)
       /\ IF not_amount(amount)
          THEN /\ Reply("main_message_handler", u, "Ne udalos raspoznat summu.", {})
               /\ balances' = en.balances
               /\ UNCHANGED <<transactions, expenses, fsm_state, fsm_data>>
          ELSE IF action = "received"
          THEN LET L1 == change_balance(L0, user, amount)
               IN /\ Len(transactions) < MaxTx
                  /\ balances' = L1.balances
                  /\ transactions' = L1.transactions
                  /\ UNCHANGED expenses
                  /\ Reply("main_message_handler", u, "Balans popolnen.", {})
                  /\ state_clear(u)
          ELSE LET resource == fsm_data[u].resource
                   L1 == change_balance(L0, user, -amount)
                   admin == get_user_by_username(en.users, Handle(ADMIN_USERNAME))
               IN /\ Len(transactions) < MaxTx
                  /\ Len(expenses) < MaxExpenses
                  /\ expenses' = insert_expense(expenses, user, user, role_of(user),
                                                amount, resource, None, <<>>)
                  /\ balances' = L1.balances
                  /\ transactions' = L1.transactions
                  /\ Reply("main_message_handler", u, "Rashod zaregistrirovan i spisan s balansa.",
                           AdminCaption(admin, None))
                  /\ state_clear(u)

mmh_give_to(u, m) ==
    LET en == ensure_user_db(users, balances, u) IN
    /\ mmh_in_state(u, m, Admin_waiting_give_to)
    /\ Ensured(en)
    /\ UNCHANGED <<transactions, expenses>>
    /\ IF m.text = <<>>
       THEN \* "".split()[0] raises IndexError: the handler ends here
            /\ Reply("main_message_handler", u, "IndexError", {})
            /\ UNCHANGED <<fsm_state, fsm_data>>
       ELSE IF ~startswith(first_word(m.text), <<"@">>)
       THEN /\ Reply("main_message_handler", u, "Ukazhi username v formate @username.", {})
            /\ UNCHANGED <<fsm_state, fsm_data>>
       ELSE /\ fsm_data' = [fsm_data EXCEPT ![u].give_to = lstrip_at(first_word(m.text))]
            /\ fsm_state' = [fsm_state EXCEPT ![u] = Admin_waiting_give_amount]
            /\ Reply("main_message_handler", u, "Ukazhi summu, kotoruyu dal.", {})

mmh_give_amount(u, m) ==
    LET en == ensure_user_db(users, balances, u)
        amount == parse_amount(m.text)
    IN /\ mmh_in_state(u, m, Admin_waiting_give_amount)
       /\ Registered(en)
       /\ UNCHANGED expenses
       /\ IF not_amount(amount)
          THEN /\ Reply("main_message_handler", u, "Ne udalos raspoznat summu.", {})
               /\ balances' = en.balances
               /\ UNCHANGED <<transactions, fsm_state, fsm_data>>
          ELSE LET to_username == fsm_data[u].give_to
                   admin_row == get_user_by_tg_id(en.users, u)
                   target_row == get_user_by_username(en.users, to_username)
                   L0 == [balances |-> en.balances, transactions |-> transactions]
                   L1 == IF admin_row # None THEN change_balance(L0, admin_row, -amount) ELSE L0
                   L2 == IF target_row # None THEN change_balance(L1, target_row, amount) ELSE L1
               IN /\ Len(transactions) + 2 <= MaxTx
                  /\ balances' = L2.balances
                  /\ transactions' = L2.transactions
                  /\ Reply("main_message_handler", u, "Operaciya vypolnena.", Notify(target_row, "Vam zachisleno ot admina"))
                  /\ state_clear(u)

mmh_default(u, m) ==
    LET en == ensure_user_db(users, balances, u) IN
    /\ ~startswith(m.text, T_help)
    /\ en.user # None
    /\ fsm_state[u] \notin {HR_waiting_amount, HR_waiting_photo, IT_waiting_amount,
                            Admin_waiting_give_to, Admin_waiting_give_amount}
    /\ Ensured(en)
    /\ Reply("main_message_handler", u, "Ne raspoznal zapros.", {})
    /\ UNCHANGED <<transactions, expenses, fsm_state, fsm_data>>

\* ------------------------------------------------------------ specification
ExpenseIds == 1..MaxExpenses

\* one update of bot_Version2.py, handled by the handler A
Update(A) ==
    /\ update_id < MaxUpdates
    /\ update_id' = update_id + 1
    /\ A
    /\ UNCHANGED <<v1vars, paid_tasks>>

Next ==
    \/ \E u \in Identities : Update(cmd_start(u)) /\ UNCHANGED deferred
    \/ \E u \in Identities : Update(handle_hr_spent(u)) /\ UNCHANGED deferred
    \/ \E u \in Identities : Update(handle_it_received(u)) /\ UNCHANGED deferred
    \/ \E u \in Identities : Update(handle_it_spent(u)) /\ UNCHANGED deferred
    \/ \E u \in Identities, r \in Resources : Update(handle_it_resource_select(u, r)) /\ UNCHANGED deferred
    \/ \E u \in Identities : Update(handle_balance(u)) /\ UNCHANGED deferred
    \/ \E u \in Identities, e \in ExpenseIds : Update(handle_admin_paid(u, e)) /\ UNCHANGED deferred
    \/ \E u \in Identities, e \in ExpenseIds : Update(handle_admin_due(u, e))
    \/ \E u \in Identities : Update(handle_admin_give(u)) /\ UNCHANGED deferred
    \/ \E u \in Identities : Update(handle_admin_stats(u)) /\ UNCHANGED deferred
    \/ \E u \in Identities, m \in Messages : Update(mmh_help(u, m)) /\ UNCHANGED deferred
    \/ \E u \in Identities, m \in Messages : Update(mmh_denied(u, m)) /\ UNCHANGED deferred
    \/ \E u \in Identities, m \in Messages : Update(mmh_hr_waiting_amount(u, m)) /\ UNCHANGED deferred
    \/ \E u \in Identities, m \in Messages, uploaded \in UploadResults :
          Update(mmh_hr_waiting_photo(u, m, uploaded)) /\ UNCHANGED deferred
    \/ \E u \in Identities, m \in Messages : Update(mmh_it_waiting_amount(u, m)) /\ UNCHANGED deferred
    \/ \E u \in Identities, m \in Messages : Update(mmh_give_to(u, m)) /\ UNCHANGED deferred
    \/ \E u \in Identities, m \in Messages : Update(mmh_give_amount(u, m)) /\ UNCHANGED deferred
    \/ \E u \in Identities, m \in Messages : Update(mmh_default(u, m)) /\ UNCHANGED deferred

Spec == Init /\ [][Next]_vars

\* ------------------------------------------------------------ failing inserts
\* HR finalization when the expenses insert returns an error: insert_expense
\* logs it and returns None, and exp["id"] raises TypeError when the admin
\* has a row to be notified through
mmh_hr_waiting_photo_insert_error(u, m, uploaded) ==
    LET en == ensure_user_db(users, balances, u)
        admin == get_user_by_username(en.users, Handle(ADMIN_USERNAME))
    IN /\ mmh_in_state(u, m, HR_waiting_photo)
       /\ m.photo \/ uploaded = None
       /\ Ensured(en)
       /\ UNCHANGED <<transactions, expenses>>
       /\ IF admin # None
          THEN /\ Reply("main_message_handler", u, "TypeError", {})
               /\ UNCHANGED <<fsm_state, fsm_data>>
          ELSE /\ Reply("main_message_handler", u, "Zayavka otpravlena adminu.", {})
               /\ state_clear(u)

\* IT finalization when the expenses insert returns an error: the debit of
\* change_balance follows the insert and is applied all the same
mmh_it_waiting_amount_insert_error(u, m) ==
    LET en == ensure_user_db(users, balances, u)
        user == en.user
        amount == parse_amount(m.text)
        L0 == [balances |-> en.balances, transactions |-> transactions]
        L1 == change_balance(L0, user, -amount)
        admin == get_user_by_username(en.users, Handle(ADMIN_USERNAME))
    IN /\ mmh_in_state(u, m, IT_waiting_amount)
       /\ ~not_amount(amount)
       /\ fsm_data[u].it_action # "received"
       /\ Len(transactions) < MaxTx
       /\ Registered(en)
       /\ balances' = L1.balances
       /\ transactions' = L1.transactions
       /\ UNCHANGED expenses
       /\ IF admin # None
          THEN /\ Reply("main_message_handler", u, "TypeError", {})
               /\ UNCHANGED <<fsm_state, fsm_data>>
          ELSE /\ Reply("main_message_handler", u,
                        "Rashod zaregistrirovan i spisan s balansa.", {})
               /\ state_clear(u)

\* bot_Version2.py with a record store whose expenses insert may fail
NextErr ==
    \/ Next
    \/ \E u \in Identities, m \in Messages, uploaded \in UploadResults :
          Update(mmh_hr_waiting_photo_insert_error(u, m, uploaded)) /\ UNCHANGED deferred
    \/ \E u \in Identities, m \in Messages :
          Update(mmh_it_waiting_amount_insert_error(u, m)) /\ UNCHANGED deferred

SpecErr == Init /\ [][NextErr]_vars

\* ------------------------------------------------------------ amount entry
\* the amount texts at the boundary: "0", "-5", "12.5.3" and "1,5 grn"
T_0 == <<"0">>
T_minus_5 == <<"-", "5">>
T_12_5_3 == <<"1", "2", ".", "5", ".", "3">>
T_1c5_grn == <<"1", ",", "5", " ", "g", "r", "n">>

AmountTexts == {T_0, T_minus_5, T_12_5_3, T_1c5_grn}
AmountMessages == {[text |-> t, photo |-> FALSE] : t \in AmountTexts}

\* the dialogs of bot_Version2.py that ask for an amount, fed the boundary texts
NextAmounts ==
    \/ \E u \in Identities : Update(handle_hr_spent(u)) /\ UNCHANGED deferred
    \/ \E u \in Identities : Update(handle_it_received(u)) /\ UNCHANGED deferred
    \/ \E u \in Identities : Update(handle_it_spent(u)) /\ UNCHANGED deferred
    \/ \E u \in Identities, r \in Resources :
          Update(handle_it_resource_select(u, r)) /\ UNCHANGED deferred
    \/ \E u \in Identities : Update(handle_admin_give(u)) /\ UNCHANGED deferred
    \/ \E u \in Identities, m \in Messages : Update(mmh_give_to(u, m)) /\ UNCHANGED deferred
    \/ \E u \in Identities, m \in AmountMessages :
          Update(mmh_hr_waiting_amount(u, m)) /\ UNCHANGED deferred
    \/ \E u \in Identities, m \in Messages, uploaded \in UploadResults :
          Update(mmh_hr_waiting_photo(u, m, uploaded)) /\ UNCHANGED deferred
    \/ \E u \in Identities, m \in AmountMessages :
          Update(mmh_it_waiting_amount(u, m)) /\ UNCHANGED deferred
    \/ \E u \in Identities, m \in AmountMessages :
          Update(mmh_give_amount(u, m)) /\ UNCHANGED deferred

SpecAmounts == Init /\ [][NextAmounts]_vars

\* ------------------------------------------------------------ settle, in two steps
\* handle_admin_paid up to the status test: ensure_user_db, the role test, the
\* select of the expense and the "paid" test; a run that passes goes on to
\* the transfer with the row it has read
paid_check(u, expense_id) ==
    LET en == ensure_user_db(users, balances, u) IN
    /\ Ensured(en)
    /\ UNCHANGED <<transactions, expenses, fsm_state, fsm_data>>
    /\ IF en.user = None \/ role_of(en.user) # "admin"
       THEN /\ Reply("handle_admin_paid", u, "Tolko admin.", {})
            /\ UNCHANGED paid_tasks
       ELSE IF expense_id \notin 1..Len(expenses)
       THEN /\ Reply("handle_admin_paid", u, "Zayavka ne naidena.", {})
            /\ UNCHANGED paid_tasks
       ELSE IF expenses[expense_id].status = "paid"
       THEN /\ Reply("handle_admin_paid", u, "Uzhe oplacheno.", {})
            /\ UNCHANGED paid_tasks
       ELSE /\ Reply("handle_admin_paid", u, "", {})
            /\ \E i \in 1..MaxPaidTasks :
                  /\ paid_tasks[i].pc = "idle"
                  /\ \A j \in 1..(i - 1) : paid_tasks[j].pc # "idle"
                  /\ paid_tasks' = [paid_tasks EXCEPT ![i] =
                         [pc |-> "checked", tg_id |-> u, expense_id |-> expense_id,
                          amount |-> expenses[expense_id].amount,
                          username |-> expenses[expense_id].username]]

\* handle_admin_paid from the transfer on: the two change_balance calls,
\* mark_expense_paid, the message to the submitter and the answer
paid_transfer(i) ==
    LET t == paid_tasks[i]
        admin_row == get_user_by_tg_id(users, t.tg_id)
        target_row == get_user_by_username(users, Handle(t.username))
        L0 == [balances |-> balances, transactions |-> transactions]
        L1 == IF admin_row # None THEN change_balance(L0, admin_row, -t.amount) ELSE L0
        L2 == IF target_row # None THEN change_balance(L1, target_row, t.amount) ELSE L1
    IN /\ t.pc = "checked"
       /\ Len(transactions) + 2 <= MaxTx
       /\ balances' = L2.balances
       /\ transactions' = L2.transactions
       /\ expenses' = mark_expense_paid(expenses, t.expense_id, admin_row)
       /\ paid_tasks' = [paid_tasks EXCEPT ![i] = IdlePaid]
       /\ Reply("handle_admin_paid", t.tg_id, "Otmecheno kak oplacheno.",
                Notify(target_row, "Vam zachisleno po zayavke"))
       /\ UNCHANGED <<users, user_inserts, fsm_state, fsm_data>>

\* one update handled while handle_admin_paid runs may be in flight
UpdateSettle(A) ==
    /\ update_id < MaxUpdatesSettle
    /\ update_id' = update_id + 1
    /\ A
    /\ UNCHANGED <<v1vars, deferred>>

\* the expense dialogs and the settle button of bot_Version2.py
NextSettle ==
    \/ \E u \in Identities : UpdateSettle(handle_hr_spent(u)) /\ UNCHANGED paid_tasks
    \/ \E u \in Identities, m \in Messages :
          UpdateSettle(mmh_hr_waiting_amount(u, m)) /\ UNCHANGED paid_tasks
    \/ \E u \in Identities, m \in Messages, uploaded \in UploadResults :
          UpdateSettle(mmh_hr_waiting_photo(u, m, uploaded)) /\ UNCHANGED paid_tasks
    \/ \E u \in Identities, e \in ExpenseIds : UpdateSettle(paid_check(u, e))
    \/ \E i \in 1..MaxPaidTasks :
          paid_transfer(i) /\ UNCHANGED <<v1vars, deferred, update_id>>

SpecSettle == Init /\ [][NextSettle]_vars

\* ============================================================ bot.py
ALLOWED_ADMIN == "admin"
HR_USERS == {"hr"}
IT_USERS == {"it"}

T_2_5 == <<"2", ".", "5">>
T_net == <<"N", "e", "t">>
T_drugoe == <<"D", "r", "u", "g", "o", "e">>
IT_CATEGORIES == {T_drugoe}

V1Texts == {T_1500, T_2_5, T_250_50, T_net, T_drugoe}
V1Messages == {[text |-> t, photo |-> FALSE] : t \in V1Texts}
              \cup {[text |-> <<>>, photo |-> TRUE]}

\* float(text) for a text of an optional sign, digits and "."; <<>> is ValueError
float(text) ==
    LET signed == text # <<>> /\ text[1] \in {"-", "+"}
        body == IF signed THEN SubSeq(text, 2, Len(text)) ELSE text
        value == Decimal(body)
    IN IF body = <<>> \/ \E i \in 1..Len(body) : body[i] \notin Digits \cup {"."}
       THEN <<>>
       ELSE IF value = NoAmount THEN <<>>
       ELSE IF signed /\ text[1] = "-" THEN <<0 - value>>
       ELSE <<value>>

\* str.lower() of bot.py's proof token
lower_net(text) ==
    [i \in 1..Len(text) |-> CASE text[i] = "N" -> "n" [] OTHER -> text[i]]

bot_ensure_user_in_db(V, username) ==
    IF username \in DOMAIN V THEN V
    ELSE [x \in DOMAIN V \cup {username} |-> IF x = username THEN 0 ELSE V[x]]

bot_get_balance(V, username) == IF username \in DOMAIN V THEN V[username] ELSE 0

bot_update_balance(V, username, new_balance) ==
    IF username \in DOMAIN V THEN [V EXCEPT ![username] = new_balance] ELSE V

v1_state_clear(u) ==
    /\ v1_fsm_state' = [v1_fsm_state EXCEPT ![u] = None]
    /\ v1_fsm_data' = [v1_fsm_data EXCEPT ![u] = V1EmptyData]

start_handler(u) ==
    /\ v1_state_clear(u)
    /\ IF u = ALLOWED_ADMIN \/ u \in HR_USERS \/ u \in IT_USERS
       THEN /\ v1_users' = bot_ensure_user_in_db(v1_users, u)
            /\ Reply("start_handler", u, "panel", {})
       ELSE /\ UNCHANGED v1_users
            /\ Reply("start_handler", u, "U vas net dostupa k etomu botu.", {})
    /\ UNCHANGED <<v1_expenses, v1_tasks, v1_applied, v1_handlers>>

balance_handler(u) ==
    /\ Reply("balance_handler", u, "Tekushchii balans", {})
    /\ UNCHANGED v1vars

\* "Prishli": asks for the amount and registers one more add_sum handler,
\* closed over the sender's username, behind every handler registered so far
plus_balance(u) ==
    /\ Len(v1_handlers) < MaxHandlers
    /\ v1_handlers' = Append(v1_handlers, u)
    /\ Reply("plus_balance", u, "Vvedite summu dlya popolneniya:", {})
    /\ UNCHANGED <<v1_users, v1_expenses, v1_fsm_state, v1_fsm_data, v1_tasks, v1_applied>>

\* A message of u that no earlier handler takes (u is in no SpendForm state)
\* goes to the add_sum registered first; username is the one it closed over.
\* dp.message.handlers.pop() removes the handler registered last.
add_sum(u, m) ==
    /\ v1_fsm_state[u] = None
    /\ v1_handlers # <<>>
    /\ LET username == v1_handlers[1]
           popped == SubSeq(v1_handlers, 1, Len(v1_handlers) - 1)
       IN IF m.photo
          THEN \* float(None) raises TypeError, which "except ValueError" lets through
               /\ Reply("add_sum", u, "TypeError", {})
               /\ UNCHANGED <<v1_users, v1_applied, v1_handlers>>
          ELSE IF float(m.text) = <<>>
          THEN /\ Reply("add_sum", u, "Vvedite korrektnoe chislo.", {})
               /\ v1_handlers' = popped
               /\ UNCHANGED <<v1_users, v1_applied>>
          ELSE LET amount == float(m.text)[1]
                   old_balance == bot_get_balance(v1_users, username)
                   new_balance == old_balance + amount
               IN /\ v1_users' = bot_update_balance(v1_users, username, new_balance)
                  /\ v1_applied' = IF username \in DOMAIN v1_users
                                   THEN [v1_applied EXCEPT ![username] = @ + amount]
                                   ELSE v1_applied
                  /\ v1_handlers' = popped
                  /\ Reply("add_sum", u, "Balans popolnen.", {})
    /\ UNCHANGED <<v1_expenses, v1_fsm_state, v1_fsm_data, v1_tasks>>

spent_start(u) ==
    /\ IF u \in IT_USERS
       THEN /\ Reply("spent_start", u, "Vyberite kategoriyu rashoda:", {})
            /\ v1_fsm_state' = [v1_fsm_state EXCEPT ![u] = SpendForm_waiting_for_category]
       ELSE /\ Reply("spent_start", u, "Vvedite summu, kotoruyu vy potratili:", {})
            /\ v1_fsm_state' = [v1_fsm_state EXCEPT ![u] = SpendForm_waiting_for_amount]
    /\ UNCHANGED <<v1_users, v1_expenses, v1_fsm_data, v1_tasks, v1_applied, v1_handlers>>

process_category(u, m) ==
    /\ v1_fsm_state[u] = SpendForm_waiting_for_category
    /\ IF m.photo \/ m.text \notin IT_CATEGORIES
       THEN /\ Reply("process_category", u, "Vyberite kategoriyu iz knopok.", {})
            /\ UNCHANGED <<v1_fsm_state, v1_fsm_data>>
       ELSE /\ v1_fsm_data' = [v1_fsm_data EXCEPT ![u].category = m.text]
            /\ v1_fsm_state' = [v1_fsm_state EXCEPT ![u] = SpendForm_waiting_for_amount]
            /\ Reply("process_category", u, "Vvedite summu rashoda:", {})
    /\ UNCHANGED <<v1_users, v1_expenses, v1_tasks, v1_applied, v1_handlers>>

process_amount(u, m) ==
    /\ v1_fsm_state[u] = SpendForm_waiting_for_amount
    /\ IF m.photo
       THEN \* float(None) raises TypeError, which the handler does not catch
            /\ Reply("process_amount", u, "TypeError", {})
            /\ UNCHANGED <<v1_fsm_state, v1_fsm_data>>
       ELSE IF float(m.text) = <<>>
       THEN /\ Reply("process_amount", u, "Vvedite korrektnoe chislo.", {})
            /\ UNCHANGED <<v1_fsm_state, v1_fsm_data>>
       ELSE /\ v1_fsm_data' = [v1_fsm_data EXCEPT ![u].amount = float(m.text)[1]]
            /\ v1_fsm_state' = [v1_fsm_state EXCEPT ![u] = SpendForm_waiting_for_comment]
            /\ Reply("process_amount", u, "Opishite, na chto byli potracheny dengi:", {})
    /\ UNCHANGED <<v1_users, v1_expenses, v1_tasks, v1_applied, v1_handlers>>

process_comment(u, m) ==
    /\ v1_fsm_state[u] = SpendForm_waiting_for_comment
    /\ v1_fsm_data' = [v1_fsm_data EXCEPT ![u].comment = m.text]
    /\ v1_fsm_state' = [v1_fsm_state EXCEPT ![u] = SpendForm_waiting_for_photo]
    /\ Reply("process_comment", u, "Otpravte foto ili skrin cheka, libo napishite 'net'.", {})
    /\ UNCHANGED <<v1_users, v1_expenses, v1_tasks, v1_applied, v1_handlers>>

\* The finalization coroutine up to "await update_balance": state.get_data(),
\* then old_balance = await get_balance(username) and new_balance.
finalize_read(i, u, file_id, handler) ==
    /\ v1_tasks[i].pc = "idle"
    /\ \A j \in 1..(i - 1) : v1_tasks[j].pc # "idle"
    /\ LET data == v1_fsm_data[u]
           old_balance == bot_get_balance(v1_users, u)
       IN v1_tasks' = [v1_tasks EXCEPT ![i] =
              [pc |-> "read", username |-> u, amount |-> data.amount,
               comment |-> data.comment, category |-> data.category,
               file_id |-> file_id, new_balance |-> old_balance - data.amount]]
    /\ Reply(handler, u, "", {})
    /\ UNCHANGED <<v1_users, v1_expenses, v1_fsm_state, v1_fsm_data, v1_applied, v1_handlers>>

process_photo(u, m) ==
    /\ v1_fsm_state[u] = SpendForm_waiting_for_photo
    /\ m.photo
    /\ \E i \in 1..MaxTasks : finalize_read(i, u, "file_id", "process_photo")

process_no_photo(u, m) ==
    /\ v1_fsm_state[u] = SpendForm_waiting_for_photo
    /\ ~m.photo
    /\ IF lower_net(m.text) = <<"n", "e", "t">>
       THEN \E i \in 1..MaxTasks : finalize_read(i, u, None, "process_no_photo")
       ELSE /\ Reply("process_no_photo", u, "Otpravte foto ili napishite 'net'.", {})
            /\ UNCHANGED v1vars

\* await update_balance(username, new_balance), then the expenses insert
finalize_write(i) ==
    LET t == v1_tasks[i] IN
    /\ t.pc = "read"
    /\ v1_users' = bot_update_balance(v1_users, t.username, t.new_balance)
    /\ v1_applied' = IF t.username \in DOMAIN v1_users
                     THEN [v1_applied EXCEPT ![t.username] = @ - t.amount]
                     ELSE v1_applied
    /\ v1_expenses' = Append(v1_expenses,
           [username |-> t.username,
            role |-> IF t.username \in IT_USERS THEN "it" ELSE "hr",
            category |-> t.category, amount |-> t.amount, comment |-> t.comment,
            photo_id |-> t.file_id])
    /\ v1_tasks' = [v1_tasks EXCEPT ![i].pc = "written"]
    /\ UNCHANGED <<v1_fsm_state, v1_fsm_data, v1_handlers, out, update_id>>

\* message.answer, the send to ALLOWED_ADMIN, then state.clear(); a send that
\* raises ends the coroutine before state.clear()
finalize_notify(i, delivered) ==
    LET t == v1_tasks[i] IN
    /\ t.pc = "written"
    /\ v1_tasks' = [v1_tasks EXCEPT ![i] = IdleTask]
    /\ IF delivered
       THEN /\ Reply("finalize_notify", t.username, "Rashod dobavlen i spisan s balansa.", {<<ALLOWED_ADMIN, "Rashod ot">>})
            /\ v1_state_clear(t.username)
       ELSE /\ Reply("finalize_notify", t.username, "Rashod dobavlen i spisan s balansa.", {})
            /\ UNCHANGED <<v1_fsm_state, v1_fsm_data>>
    /\ UNCHANGED <<v1_users, v1_expenses, v1_applied, v1_handlers, update_id>>

\* one update of bot.py, handled by the handler A
UpdateV1(A) ==
    /\ update_id < MaxUpdatesV1
    /\ update_id' = update_id + 1
    /\ A
    /\ UNCHANGED v2vars

NextV1 ==
    \/ \E u \in Identities : UpdateV1(start_handler(u))
    \/ \E u \in Identities : UpdateV1(balance_handler(u))
    \/ \E u \in Identities : UpdateV1(plus_balance(u))
    \/ \E u \in Identities, m \in V1Messages : UpdateV1(add_sum(u, m))
    \/ \E u \in Identities : UpdateV1(spent_start(u))
    \/ \E u \in Identities, m \in V1Messages : UpdateV1(process_category(u, m))
    \/ \E u \in Identities, m \in V1Messages : UpdateV1(process_amount(u, m))
    \/ \E u \in Identities, m \in V1Messages : UpdateV1(process_comment(u, m))
    \/ \E u \in Identities, m \in V1Messages : UpdateV1(process_photo(u, m))
    \/ \E u \in Identities, m \in V1Messages : UpdateV1(process_no_photo(u, m))
    \/ \E i \in 1..MaxTasks : finalize_write(i) /\ UNCHANGED v2vars
    \/ \E i \in 1..MaxTasks, delivered \in BOOLEAN :
          finalize_notify(i, delivered) /\ UNCHANGED v2vars

SpecV1 == Init /\ [][NextV1]_vars

\* ============================================================ properties
\* the balance an account shows (0 before its row exists)
BalanceOf(B, u) == IF u \in DOMAIN B THEN B[u] ELSE 0

\* the signed sum of the transactions rows that reference account u
RECURSIVE TxSum(_, _)
TxSum(log, u) ==
    IF log = <<>> THEN 0
    ELSE LET row == log[Len(log)]
         IN TxSum(SubSeq(log, 1, Len(log) - 1), u)
            + (IF row.to_user = u THEN row.amount ELSE 0)
            - (IF row.from_user = u THEN row.amount ELSE 0)

\* C1: every account's balance equals the signed sum of the transactions that
\* reference the account.
C1_BalanceIsTransactionSum ==
    \A u \in DOMAIN balances : balances[u] = TxSum(transactions, u)

C3_SecondSettleRejected ==
    [][\A e \in ExpenseIds :
          (e <= Len(expenses) /\ handle_admin_paid(ADMIN_USERNAME, e))
              => /\ expenses'[e].status = "paid"
                 /\ expenses[e].status = "paid"
                      => /\ out'.reply = "Uzhe oplacheno."
                         /\ balances' = balances
                         /\ transactions' = transactions
                         /\ expenses' = expenses]_vars

\* a second settle of a paid expense was answered, after exactly one transfer
C3_Witness ==
    /\ out.handler = "handle_admin_paid"
    /\ out.reply = "Uzhe oplacheno."
    /\ Len(transactions) <= 3
    /\ \E e \in 1..Len(expenses) : expenses[e].status = "paid"

\* C4: once an expense is paid, no settle and no defer on it, by anyone, changes
\* its status or the balance of any account.
C4_PaidIsTerminal ==
    [][\A e \in ExpenseIds, u \in Identities :
          (/\ e <= Len(expenses)
           /\ expenses[e].status = "paid"
           /\ handle_admin_paid(u, e) \/ handle_admin_due(u, e))
              => /\ expenses'[e].status = "paid"
                 /\ \A x \in DOMAIN balances' : BalanceOf(balances', x) = BalanceOf(balances, x)]_vars

\* the step is a finalization of u's expense dialog: u's expense row is appended
Finalizes(u) ==
    /\ Len(expenses') = Len(expenses) + 1
    /\ expenses'[Len(expenses')].username = u

\* C5: whenever an expense dialog finalizes, in the HR flow and in the IT flow,
\* the new expense is pending, the submitter's balance has gone down by its
\* amount, the admin (when the admin has an account) got the settle/defer
\* buttons, and the submitter's dialog state and data are cleared.
C5_FinalizationDebits ==
    [][\A u \in Identities :
          Finalizes(u)
              => LET exp == expenses'[Len(expenses')]
                 IN /\ exp.status = "pending"
                    /\ BalanceOf(balances', u) = BalanceOf(balances, u) - exp.amount
                    /\ ADMIN_USERNAME \in users' =>
                          <<ADMIN_USERNAME, "Novaya rashodka + Oplatil/Otlozhit">> \in out'.sent
                    /\ fsm_state'[u] = None
                    /\ fsm_data'[u] = EmptyData]_vars

\* C6: a settle by the admin of an existing expense that is not paid sets it
\* paid with paid_by the admin, takes its amount from the admin's balance, adds
\* its amount to the submitter's balance, leaves the other balances alone and
\* sends the submitter a message.
C6_SettleTransfers ==
    [][\A e \in ExpenseIds :
          (/\ e <= Len(expenses)
           /\ expenses[e].status # "paid"
           /\ handle_admin_paid(ADMIN_USERNAME, e))
              => LET exp == expenses[e]
                     B0 == [x \in DOMAIN balances \cup {ADMIN_USERNAME} |-> BalanceOf(balances, x)]
                     B1 == [B0 EXCEPT ![ADMIN_USERNAME] = @ - exp.amount]
                     B2 == [B1 EXCEPT ![exp.username] = @ + exp.amount]
                 IN /\ expenses'[e].status = "paid"
                    /\ expenses'[e].paid_by = ADMIN_USERNAME
                    /\ exp.username \in DOMAIN balances
                    /\ balances' = B2
                    /\ <<exp.username, "Vam zachisleno po zayavke">> \in out'.sent]_vars

\* the admin settled an expense of another account
C6_Witness ==
    /\ out.handler = "handle_admin_paid"
    /\ out.reply = "Otmecheno kak oplacheno."
    /\ \E e \in 1..Len(expenses) :
          /\ expenses[e].status = "paid"
          /\ expenses[e].username # ADMIN_USERNAME
          /\ balances[ADMIN_USERNAME] = 0 - expenses[e].amount

\* C7: when the admin completes the give dialog with an amount A for a target X
\* that is an existing HR or IT account, the admin's balance goes down by A
\* (from 0 to -A), X's balance goes up by A, X is sent a message and the admin's
\* dialog state and data are cleared.
C7_GiveTransfers ==
    [][\A m \in Messages :
          LET A == parse_amount(m.text)
              X == get_user_by_username(users, fsm_data[ADMIN_USERNAME].give_to)
          IN (/\ mmh_give_amount(ADMIN_USERNAME, m)
              /\ ~not_amount(A)
              /\ X # None
              /\ role_of(X) \in {"hr", "it"})
                 => /\ balances'[ADMIN_USERNAME] = BalanceOf(balances, ADMIN_USERNAME) - A
                    /\ balances'[X] = balances[X] + A
                    /\ <<X, "Vam zachisleno ot admina">> \in out'.sent
                    /\ fsm_state'[ADMIN_USERNAME] = None
                    /\ fsm_data'[ADMIN_USERNAME] = EmptyData]_vars

\* the scenario: the admin at 0 gave 1500 to hr
C7_Witness ==
    /\ out.reply = "Operaciya vypolnena."
    /\ <<"hr", "Vam zachisleno ot admina">> \in out.sent
    /\ "hr" \in DOMAIN balances /\ ADMIN_USERNAME \in DOMAIN balances
    /\ balances[ADMIN_USERNAME] = 0 - 150000
    /\ balances["hr"] = 150000
    /\ fsm_state[ADMIN_USERNAME] = None

\* C8: a give or a settle that answered success has applied both legs: the two
\* newest transactions are the debit and the credit of one amount.
C8_TransferNeverOneSided ==
    out.reply \in {"Operaciya vypolnena.", "Otmecheno kak oplacheno."}
        => /\ Len(transactions) >= 2
           /\ transactions[Len(transactions) - 1].type = "debit"
           /\ transactions[Len(transactions)].type = "credit"
           /\ transactions[Len(transactions) - 1].amount = transactions[Len(transactions)].amount

\* C9: a settle or a defer pressed by an identity whose role is not admin is
\* answered "admins only" and changes no expense, no balance and no transaction.
C9_NonAdminRejected ==
    [][\A u \in Identities \ {ADMIN_USERNAME}, e \in ExpenseIds :
          (handle_admin_paid(u, e) \/ handle_admin_due(u, e))
              => /\ out'.reply = "Tolko admin."
                 /\ expenses' = expenses
                 /\ transactions' = transactions
                 /\ \A x \in DOMAIN balances' : BalanceOf(balances', x) = BalanceOf(balances, x)]_vars

\* a non-admin pressed settle or defer while an expense was waiting
C9_Witness ==
    /\ out.handler \in {"handle_admin_paid", "handle_admin_due"}
    /\ out.from_user # ADMIN_USERNAME
    /\ out.reply = "Tolko admin."
    /\ \E e \in 1..Len(expenses) : expenses[e].status = "pending"

\* C10: an identity that is in no role set has no users row, no balance row,
\* no dialog state or data and no expense.
C10_UnauthorizedLeavesNoState ==
    \A u \in Identities :
        allowed_map(u) = None
            => /\ u \notin users
               /\ u \notin DOMAIN balances
               /\ fsm_state[u] = None
               /\ fsm_data[u] = EmptyData
               /\ \A e \in 1..Len(expenses) : expenses[e].username # u

\* C11: no username is ever inserted into users twice, and resolving an
\* identity that has its row returns that row, inserts nothing and leaves
\* every balance as it is.
C11_ResolveIsIdempotent ==
    \A u \in Identities :
        /\ user_inserts[u] <= 1
        /\ u \in users
              => LET en == ensure_user_db(users, balances, u)
                 IN /\ en.user = u
                    /\ ~en.inserted
                    /\ en.users = users
                    /\ en.balances = balances

\* an identity with a non-zero balance was resolved again
C11_Witness ==
    /\ out.handler = "handle_balance"
    /\ out.from_user \in users
    /\ balances[out.from_user] # 0
    /\ user_inserts[out.from_user] = 1
\* C12: a defer by the admin of an existing expense that is not paid leaves
\* the expense with status due, leaves every balance and the transaction log
\* unchanged and sends the submitter a message.
C12_DeferMarksDue ==
    [][\A e \in ExpenseIds :
          (/\ e <= Len(expenses)
           /\ expenses[e].status # "paid"
           /\ handle_admin_due(ADMIN_USERNAME, e))
              => /\ expenses'[e].status = "due"
                 /\ transactions' = transactions
                 /\ \A x \in DOMAIN balances' : BalanceOf(balances', x) = BalanceOf(balances, x)
                 /\ <<expenses[e].username, "Vasha zayavka ozhidaet oplaty">> \in out'.sent]_vars

\* C13: a settle by the admin of an expense that was deferred and is not paid
\* makes the one transfer of its amount and sets it paid, and an expense that
\* was deferred becomes paid in no step but a settle by the admin.
C13_DeferredCanBeSettled ==
    [][\A e \in deferred' :
          /\ (/\ e \in deferred
              /\ expenses[e].status # "paid"
              /\ handle_admin_paid(ADMIN_USERNAME, e))
                => LET exp == expenses[e]
                       B1 == [balances EXCEPT ![ADMIN_USERNAME] = @ - exp.amount]
                       B2 == [B1 EXCEPT ![exp.username] = @ + exp.amount]
                   IN /\ expenses'[e].status = "paid"
                      /\ balances' = B2
                      /\ Len(transactions') = Len(transactions) + 2
          /\ (expenses[e].status # "paid" /\ expenses'[e].status = "paid")
                => /\ out'.handler = "handle_admin_paid"
                   /\ out'.from_user = ADMIN_USERNAME]_vars

\* an expense that was deferred has been settled, with one transfer
C13_Witness ==
    /\ out.handler = "handle_admin_paid"
    /\ out.reply = "Otmecheno kak oplacheno."
    /\ \E e \in deferred :
          /\ expenses[e].status = "paid"
          /\ balances[ADMIN_USERNAME] = 0 - expenses[e].amount
\* C14: in the amount step of the expense, income and give dialogs the texts
\* "0", "-5" and "12.5.3" are answered "not recognised" and change no dialog
\* state or data, no balance, no transaction and no expense, the text
\* "1,5 grn" is taken as 1.50, and every expense amount and every transaction
\* amount is positive.
C14_AmountBoundaries ==
    [][\A u \in Identities, m \in AmountMessages :
          (\/ mmh_hr_waiting_amount(u, m)
           \/ mmh_it_waiting_amount(u, m)
           \/ mmh_give_amount(u, m))
              => /\ m.text \in {T_0, T_minus_5, T_12_5_3}
                      => /\ out'.reply = "Ne udalos raspoznat summu."
                         /\ UNCHANGED <<fsm_state, fsm_data, transactions, expenses>>
                         /\ \A x \in DOMAIN balances' :
                               BalanceOf(balances', x) = BalanceOf(balances, x)
                 /\ m.text = T_1c5_grn
                      => /\ out'.reply # "Ne udalos raspoznat summu."
                         /\ \/ fsm_data'[u].amount = 150
                            \/ /\ Len(transactions') > Len(transactions)
                               /\ transactions'[Len(transactions')].amount = 150
                 /\ \A e \in 1..Len(expenses') : expenses'[e].amount > 0
                 /\ \A t \in 1..Len(transactions') : transactions'[t].amount > 0]_vars
C16_RestartDiscardsState ==
    [][\A u \in Identities :
          (/\ fsm_state[u] # None
           /\ \/ handle_hr_spent(u)
              \/ handle_it_received(u)
              \/ handle_it_spent(u)
              \/ handle_admin_give(u)
           /\ fsm_state'[u] \in {HR_waiting_amount, IT_waiting_amount,
                                 IT_waiting_resource, Admin_waiting_give_to}
           /\ out'.reply \notin {"Tolko HR.", "Tolko IT.", "Tolko admin."})
              => [fsm_data'[u] EXCEPT !.it_action = None] = EmptyData]_vars
\* C17: when the expenses insert fails during a finalization, the sender's
\* dialog state and data are cleared and the answer is neither the success
\* text nor an exception: the sender is told that the finalization failed.
C17_FailureClearsDialog ==
    [][\A u \in Identities, m \in Messages :
          (\/ \E uploaded \in UploadResults :
                 mmh_hr_waiting_photo_insert_error(u, m, uploaded)
           \/ mmh_it_waiting_amount_insert_error(u, m))
              => /\ fsm_state'[u] = None
                 /\ fsm_data'[u] = EmptyData
                 /\ out'.reply \notin {"TypeError", "Zayavka otpravlena adminu.",
                                       "Rashod zaregistrirovan i spisan s balansa."}]_vars
\* C18: (bot.py) when a finalization ends, with the message to the admin
\* delivered or not, the balance written and the expense inserted stay as they
\* are and the submitter's dialog state and data are cleared, so the same
\* dialog cannot be finalized again.
C18_NotificationFailureSwallowed ==
    [][\A i \in 1..MaxTasks, delivered \in BOOLEAN :
          finalize_notify(i, delivered)
              => /\ v1_users' = v1_users
                 /\ v1_expenses' = v1_expenses
                 /\ v1_fsm_state'[v1_tasks[i].username] = None
                 /\ v1_fsm_data'[v1_tasks[i].username] = V1EmptyData]_vars
\* C19: (bot.py) a dialog step of an identity is handled only when every
\* earlier step of that identity has finished, so that it sees the dialog
\* state and data the earlier step leaves behind.
C19_StepsInArrivalOrder ==
    [][(/\ update_id' # update_id
        /\ out'.handler \in {"process_category", "process_amount", "process_comment",
                              "process_photo", "process_no_photo"})
          => \A i \in 1..MaxTasks :
                v1_tasks[i].pc # "idle" => v1_tasks[i].username # out'.from_user]_vars
\* the number of add_sum handlers registered for username x
Pending(h, x) == Cardinality({k \in 1..Len(h) : h[k] = x})

\* C20: (bot.py) an update sent by one identity leaves every other identity's
\* dialog state and data, balance and pending income dialog as they were.
C20_NoCrossIdentitySharing ==
    [][update_id' # update_id
          => \A x \in Identities \ {out'.from_user} :
                /\ v1_fsm_state'[x] = v1_fsm_state[x]
                /\ v1_fsm_data'[x] = v1_fsm_data[x]
                /\ BalanceOf(v1_users', x) = BalanceOf(v1_users, x)
                /\ Pending(v1_handlers', x) = Pending(v1_handlers, x)]_vars
\* C21: from no dialog, the expense button of the HR menu puts an HR identity
\* in waiting_amount and nobody else anywhere, the expense button of the IT
\* menu puts an IT identity in waiting_resource (the category choice) and
\* nobody else anywhere, and no other identity's state changes.
C21_ReportExpenseEntry ==
    [][\A u \in Identities :
          fsm_state[u] = None
              => /\ handle_hr_spent(u)
                      => /\ fsm_state'[u] = IF allowed_map(u) = "hr"
                                            THEN HR_waiting_amount ELSE None
                         /\ \A x \in Identities \ {u} : fsm_state'[x] = fsm_state[x]
                 /\ handle_it_spent(u)
                      => /\ fsm_state'[u] = IF allowed_map(u) = "it"
                                            THEN IT_waiting_resource ELSE None
                         /\ \A x \in Identities \ {u} : fsm_state'[x] = fsm_state[x]]_vars

\* both expense dialogs were entered from no dialog
C21_Witness ==
    /\ out.handler \in {"handle_hr_spent", "handle_it_spent"}
    /\ fsm_state["hr"] = HR_waiting_amount
    /\ fsm_state["it"] = IT_waiting_resource
    /\ fsm_state["admin"] = None
\* C22: a category button pressed while the sender's dialog is not waiting for
\* the category changes neither the sender's dialog state nor the sender's
\* stored data, and one pressed in waiting_resource stores the category and
\* moves the dialog to waiting_amount.
C22_CategoryOnlyWhenAwaited ==
    [][\A u \in Identities, r \in Resources :
          handle_it_resource_select(u, r)
              => IF fsm_state[u] = IT_waiting_resource
                 THEN /\ fsm_state'[u] = IT_waiting_amount
                      /\ fsm_data'[u] = [fsm_data[u] EXCEPT !.resource = r]
                 ELSE /\ fsm_state'[u] = fsm_state[u]
                      /\ fsm_data'[u] = fsm_data[u]]_vars
\* C23: a message in the amount step of an expense dialog (HR waiting_amount,
\* IT waiting_amount of the "spent" action) creates no expense and changes no
\* balance; the dialog stays open, its amount is stored when the text holds a
\* positive amount, and state and data stay as they were when it does not.
C23_AmountStepOnlyStores ==
    [][\A u \in Identities, m \in Messages :
          /\ (/\ fsm_state[u] = HR_waiting_amount
              /\ mmh_hr_waiting_amount(u, m))
                => /\ expenses' = expenses
                   /\ \A x \in Identities : BalanceOf(balances', x) = BalanceOf(balances, x)
                   /\ IF not_amount(parse_amount(m.text))
                      THEN fsm_state'[u] = fsm_state[u] /\ fsm_data'[u] = fsm_data[u]
                      ELSE /\ fsm_state'[u] = HR_waiting_photo
                           /\ fsm_data'[u] = [fsm_data[u] EXCEPT !.amount = parse_amount(m.text)]
          /\ (/\ fsm_state[u] = IT_waiting_amount
              /\ fsm_data[u].it_action = "spent"
              /\ mmh_it_waiting_amount(u, m))
                => /\ expenses' = expenses
                   /\ \A x \in Identities : BalanceOf(balances', x) = BalanceOf(balances, x)
                   /\ fsm_state'[u] # None
                   /\ IF not_amount(parse_amount(m.text))
                      THEN fsm_state'[u] = fsm_state[u] /\ fsm_data'[u] = fsm_data[u]
                      ELSE fsm_data'[u] = [fsm_data[u] EXCEPT !.amount = parse_amount(m.text)]]_vars
\* C24: in the proof step of the HR dialog a message that is neither a photo
\* nor one of the tokens the step names ("net"/"no", "nalichka"/"nal", in any
\* letter case) finalizes nothing: no expense is created, no balance changes
\* and the sender's dialog state and data stay as they were.
C24_ProofStepRejectsOtherInput ==
    [][\A u \in Identities, m \in Messages, uploaded \in UploadResults :
          (/\ fsm_state[u] = HR_waiting_photo
           /\ ~m.photo
           /\ lower(m.text) \notin NoTokens \cup CashTokens
           /\ mmh_hr_waiting_photo(u, m, uploaded))
              => /\ expenses' = expenses
                 /\ \A x \in Identities : BalanceOf(balances', x) = BalanceOf(balances, x)
                 /\ fsm_state'[u] = fsm_state[u]
                 /\ fsm_data'[u] = fsm_data[u]]_vars
C26_ExpenseAndDebitTogether ==
    [][\A u \in Identities :
          (/\ \/ fsm_state[u] = HR_waiting_photo
              \/ fsm_state[u] = IT_waiting_amount /\ fsm_data[u].it_action = "spent"
           /\ update_id' # update_id
           /\ out'.handler = "main_message_handler"
           /\ out'.from_user = u)
              => LET debit == BalanceOf(balances, u) - BalanceOf(balances', u)
                 IN IF Finalizes(u)
                    THEN debit = expenses'[Len(expenses')].amount
                    ELSE debit = 0 /\ expenses' = expenses]_vars
\* C27: in every reachable state an identity in a state of the IT dialog has
\* the role IT, one in a state of the HR dialog has the role HR and one in a
\* state of the give dialog has the role admin; every expense with a resource
\* (an IT finalization) was submitted by an identity of role IT.
C27_DialogStatesGatedByRole ==
    /\ \A u \in Identities :
          /\ fsm_state[u] \in {IT_waiting_resource, IT_waiting_amount} => allowed_map(u) = "it"
          /\ fsm_state[u] \in {HR_waiting_amount, HR_waiting_photo} => allowed_map(u) = "hr"
          /\ fsm_state[u] \in {Admin_waiting_give_to, Admin_waiting_give_amount}
                => allowed_map(u) = "admin"
    /\ \A e \in 1..Len(expenses) :
          expenses[e].resource # None => allowed_map(expenses[e].username) = "it"
\* C28: (bot.py) a text message taken by the income dialog changes no balance
\* but the sender's, changes none at all when the sender has no income dialog
\* open, and leaves no add_sum handler of the sender registered.
C28_IncomeDialogLeavesNoHandler ==
    [][\A u \in Identities, m \in V1Messages :
          (/\ v1_fsm_state[u] = None
           /\ v1_handlers # <<>>
           /\ ~m.photo
           /\ add_sum(u, m))
              => /\ \A x \in Identities \ {u} : BalanceOf(v1_users', x) = BalanceOf(v1_users, x)
                 /\ Pending(v1_handlers, u) = 0 => v1_users' = v1_users
                 /\ Pending(v1_handlers', u) = 0]_vars
====
